---- MODULE Spec2Model ----
(***************************************************************************)
(* A model of src/src/soporte.py, the table-cleaning helpers of the        *)
(* retail-data notebooks.                                                  *)
(*                                                                         *)
(* A text is a sequence of one-character strings.  A table (DataFrame) is  *)
(* a record; the part of it a function reads or writes is what the record  *)
(* keeps.  Every function has its own state record (its arguments, its     *)
(* locals, its position pc, what it returned or raised), and its own       *)
(* specification; the records of the other functions stay idle.            *)
(***************************************************************************)
EXTENDS Integers, Sequences, FiniteSets, TLC

VARIABLES norm, csv, fecha, bool, texto

vars == <<norm, csv, fecha, bool, texto>>

Idle == [pc |-> "idle"]

NULL == [null |-> TRUE]

(***************************************************************************)
(* Text primitives of Python's str used by the source.                     *)
(***************************************************************************)

\* The whitespace str.strip() removes and the regex class \s matches
\* (the members that occur in the inputs of this model).
Whitespace == {" ", "\t", "\n"}

RECURSIVE LStrip(_)
LStrip(s) ==
    IF s # <<>> /\ Head(s) \in Whitespace THEN LStrip(Tail(s)) ELSE s

RECURSIVE RStrip(_)
RStrip(s) ==
    IF s # <<>> /\ s[Len(s)] \in Whitespace
    THEN RStrip(SubSeq(s, 1, Len(s) - 1))
    ELSE s

\* str.strip()
Strip(s) == RStrip(LStrip(s))

UpperChars ==
    <<"A", "B", "C", "D", "E", "F", "G", "H", "I", "J", "K", "L", "M",
      "N", "O", "P", "Q", "R", "S", "T", "U", "V", "W", "X", "Y", "Z",
      "Á", "É", "Í", "Ó", "Ú", "Ñ">>

LowerChars ==
    <<"a", "b", "c", "d", "e", "f", "g", "h", "i", "j", "k", "l", "m",
      "n", "o", "p", "q", "r", "s", "t", "u", "v", "w", "x", "y", "z",
      "á", "é", "í", "ó", "ú", "ñ">>

LowerChar(c) ==
    IF \E i \in 1..Len(UpperChars) : UpperChars[i] = c
    THEN LowerChars[CHOOSE i \in 1..Len(UpperChars) : UpperChars[i] = c]
    ELSE c

UpperChar(c) ==
    IF \E i \in 1..Len(LowerChars) : LowerChars[i] = c
    THEN UpperChars[CHOOSE i \in 1..Len(LowerChars) : LowerChars[i] = c]
    ELSE c

\* str.lower()
Lower(s) == [i \in 1..Len(s) |-> LowerChar(s[i])]

\* str.replace(old, new) for a one-character old
RECURSIVE Replace(_, _, _)
Replace(s, old, new) ==
    IF s = <<>> THEN <<>>
    ELSE (IF Head(s) = old THEN new ELSE <<Head(s)>>)
         \o Replace(Tail(s), old, new)

\* All texts over alphabet A of length at most n.
RECURSIVE TextsUpTo(_, _)
TextsUpTo(A, n) ==
    IF n = 0 THEN {<<>>}
    ELSE LET shorter == TextsUpTo(A, n - 1)
         IN  shorter \cup {Append(s, c) : s \in shorter, c \in A}

\* All sequences over S of length at most n.
SeqsUpTo(S, n) == UNION {[1..k -> S] : k \in 0..n}

(***************************************************************************)
(* normalizar_nombres_columnas and normalizar_columnas_df_list             *)
(***************************************************************************)

MaxNameLen == 3
MaxDfs == 2

NameAlphabet == {" ", "\t", "%", "-", "A", "a"}

Names == TextsUpTo(NameAlphabet, MaxNameLen)

SampleNames ==
    { <<"C", "o", "l", "u", "m", "n", " ", "%">>,
      <<" ", "I", "d", "-", "T", "i", "e", "n", "d", "a", " ">>,
      <<"i", "d", "_", "t", "i", "e", "n", "d", "a">>,
      <<"%", " ", "N", "u", "l", "o", "s">> }

\* Tables as this function sees them: the column labels.
SampleDfs ==
    {[columns |-> <<a>>] : a \in SampleNames}
    \cup {[columns |-> <<a, b>>] : a \in SampleNames, b \in SampleNames}

NormInputs ==
    {<<[columns |-> <<n>>]>> : n \in Names} \cup SeqsUpTo(SampleDfs, MaxDfs)

\* A plausible slip: '-' replaced by a space after the spaces were replaced.
normalizar_guion_a_espacio(name) ==
    LET a == Strip(name)
        b == Lower(a)
        c == Replace(b, " ", <<"_">>)
        d == Replace(c, "%", <<"p", "c", "t">>)
    IN  Replace(d, "-", <<" ">>)

\* A plausible slip: the replacements run before strip.
normalizar_strip_al_final(name) ==
    LET a == Lower(name)
        b == Replace(a, " ", <<"_">>)
        c == Replace(b, "%", <<"p", "c", "t">>)
        d == Replace(c, "-", <<"_">>)
    IN  Strip(d)

normalizar_nombres_columnas(name) ==
    LET a == Strip(name)
        b == Lower(a)
        c == Replace(b, " ", <<"_">>)
        d == Replace(c, "%", <<"p", "c", "t">>)
    IN  Replace(d, "-", <<"_">>)

\* df.rename(columns=lambda c: normalizar_nombres_columnas(str(c))): a new
\* table with the renamed labels; df itself keeps its labels.
Rename(df) ==
    [df EXCEPT !.columns =
        [j \in 1..Len(df.columns) |-> normalizar_nombres_columnas(df.columns[j])]]

\* The call's effect: the caller's list after the call, and the value returned.
normalizar_columnas_df_list(df_list) ==
    [df_list      |-> df_list,
     df_list_norm |-> [i \in 1..Len(df_list) |-> Rename(df_list[i])]]

NormInit ==
    \E l \in NormInputs :
        norm = [pc |-> "start", df_list |-> l,
                df_list_norm |-> <<>>, df_list_norm2 |-> <<>>]

\* The notebook calls normalizar_columnas_df_list(df_list).
NormalizarColumnasDfList ==
    /\ norm.pc = "start"
    /\ LET r == normalizar_columnas_df_list(norm.df_list)
       IN  norm' = [norm EXCEPT !.pc = "normalized",
                                !.df_list = r.df_list,
                                !.df_list_norm = r.df_list_norm]
    /\ UNCHANGED <<csv, fecha, bool, texto>>

\* The notebook calls it again on the list it got back.
NormalizarOtraVez ==
    /\ norm.pc = "normalized"
    /\ LET r == normalizar_columnas_df_list(norm.df_list_norm)
       IN  norm' = [norm EXCEPT !.pc = "renormalized",
                                !.df_list_norm = r.df_list,
                                !.df_list_norm2 = r.df_list_norm]
    /\ UNCHANGED <<csv, fecha, bool, texto>>

InitNorm ==
    /\ NormInit
    /\ csv = Idle /\ fecha = Idle /\ bool = Idle /\ texto = Idle

NextNorm == NormalizarColumnasDfList \/ NormalizarOtraVez

SpecNorm == InitNorm /\ [][NextNorm]_vars

(***************************************************************************)
(* Claims about normalizar_nombres_columnas and normalizar_columnas_df_list*)
(***************************************************************************)

AsciiUpper == {UpperChars[i] : i \in 1..26}

\* What one character of the stripped name becomes.
NormChar(c) ==
    CASE c = " " -> <<"_">>
      [] c = "%" -> <<"p", "c", "t">>
      [] c = "-" -> <<"_">>
      [] OTHER   -> <<LowerChar(c)>>

RECURSIVE NormEach(_)
NormEach(s) == IF s = <<>> THEN <<>> ELSE NormChar(Head(s)) \o NormEach(Tail(s))

\* SubSeq(s, lo, hi) is s without its surrounding whitespace.
IsStripped(s, lo, hi) ==
    /\ \A k \in 1..Len(s) : (k < lo \/ k > hi) => s[k] \in Whitespace
    /\ lo <= hi => (s[lo] \notin Whitespace /\ s[hi] \notin Whitespace)
    /\ lo > hi => (lo = 1 /\ hi = 0)

ColumnPct == <<"C", "o", "l", "u", "m", "n", " ", "%">>
Column_pct == <<"c", "o", "l", "u", "m", "n", "_", "p", "c", "t">>

\* C9: every name comes back as its stripped, lower-cased form with each
\* space and each '-' turned into '_' and each '%' into 'pct' ('Column %'
\* gives 'column_pct'), so the result holds no space, no '%', no '-' and no
\* upper-case ASCII letter.
C9_NormalizedName ==
    norm.pc \in {"normalized", "renormalized"} =>
        \A i \in 1..Len(norm.df_list) :
            \A j \in 1..Len(norm.df_list[i].columns) :
                LET n == norm.df_list[i].columns[j]
                    r == norm.df_list_norm[i].columns[j]
                IN  /\ \E lo \in 1..(Len(n) + 1), hi \in 0..Len(n) :
                            /\ IsStripped(n, lo, hi)
                            /\ r = NormEach(SubSeq(n, lo, hi))
                    /\ \A k \in 1..Len(r) :
                            r[k] \notin ({" ", "%", "-"} \cup AsciiUpper)
                    /\ n = ColumnPct => r = Column_pct

C9_Witness ==
    /\ norm.pc = "normalized"
    /\ \E i \in 1..Len(norm.df_list) :
          \E j \in 1..Len(norm.df_list[i].columns) :
              /\ norm.df_list[i].columns[j] = ColumnPct
              /\ norm.df_list_norm[i].columns[j] = Column_pct

\* C10: normalizing a normalized name changes nothing, so the second call
\* returns the labels of the first; the returned list is as long as the
\* input, and the input tables keep their labels.
C10_Idempotent ==
    /\ [](/\ norm.pc \in {"normalized", "renormalized"} =>
                Len(norm.df_list_norm) = Len(norm.df_list)
          /\ norm.pc = "renormalized" =>
                /\ Len(norm.df_list_norm2) = Len(norm.df_list_norm)
                /\ \A i \in 1..Len(norm.df_list_norm) :
                      norm.df_list_norm2[i].columns = norm.df_list_norm[i].columns)
    /\ [][/\ norm.pc = "start" => norm'.df_list = norm.df_list
          /\ norm.pc = "normalized" =>
                /\ norm'.df_list = norm.df_list
                /\ norm'.df_list_norm = norm.df_list_norm]_vars

C10_Witness ==
    /\ norm.pc = "renormalized"
    /\ Len(norm.df_list) = 2
    /\ \A i \in 1..2 : norm.df_list_norm[i].columns # norm.df_list[i].columns
    /\ norm.df_list_norm2 = norm.df_list_norm

(***************************************************************************)
(* cargar_todos_csv and cargar_df_list_desde_directorio_csv                *)
(***************************************************************************)

MaxFiles == 2

\* for enc in (...) / for sep in (...)
Encodings == <<"utf-8-sig", "utf-8", "latin-1", "utf-16">>
Separators == <<",", ";", "|", "\t">>

Range(f) == {f[i] : i \in DOMAIN f}

\* A file, by what pd.read_csv makes of it: the encodings that decode its
\* bytes, and per separator whether the parse gives one column, several
\* columns, or fails.
Files ==
    [decodable : SUBSET Range(Encodings),
     bysep     : [Range(Separators) -> {"one", "many", "error"}]]

OnlySep(sep) == [x \in Range(Separators) |-> IF x = sep THEN "many" ELSE "one"]

SampleFiles ==
    { [decodable |-> {"utf-8-sig", "utf-8", "latin-1"}, bysep |-> OnlySep(",")],
      [decodable |-> {"latin-1"},                       bysep |-> OnlySep(";")],
      [decodable |-> {"latin-1", "utf-16"},
       bysep |-> [OnlySep("\t") EXCEPT ![","] = "error"]],
      [decodable |-> {"latin-1"},
       bysep |-> [x \in Range(Separators) |-> "one"]],
      [decodable |-> {},
       bysep |-> [x \in Range(Separators) |-> "many"]] }

\* A path of the directory: its name and the file behind it.
PathOf(name, file) ==
    [name |-> name, decodable |-> file.decodable, bysep |-> file.bysep]

\* pd.read_csv(path, encoding=enc, sep=sep): raises, or gives a table.  The
\* table remembers the read that made it; shape[1] is ncols.
ReadCsv(path, enc, sep) ==
    IF enc \notin path.decodable
    THEN [raised |-> TRUE, exc |-> "UnicodeDecodeError", df |-> NULL]
    ELSE IF path.bysep[sep] = "error"
    THEN [raised |-> TRUE, exc |-> "ParserError", df |-> NULL]
    ELSE [raised |-> FALSE, exc |-> "",
          df |-> [source |-> path.name, encoding |-> enc, sep |-> sep,
                  ncols |-> IF path.bysep[sep] = "many" THEN 2 ELSE 1]]

\* if df.shape[1] > 1
AlMenosDosColumnas(df) == df.ncols > 1

\* A plausible slip: only decoding errors are caught.
ExceptUnicodeError(e) == e = "UnicodeDecodeError"

\* except Exception as e
ExceptException(e) == e \in {"UnicodeDecodeError", "ParserError"}

\* A plausible slip: the loops nested the other way round.
SiguienteSepFuera(enc_i, sep_i) ==
    IF enc_i < Len(Encodings) THEN <<enc_i + 1, sep_i>> ELSE <<1, sep_i + 1>>

\* The position after (enc_i, sep_i) in the nested for loops; past the last
\* pair the encoding index leaves the tuple.
SiguientePar(enc_i, sep_i) ==
    IF sep_i < Len(Separators) THEN <<enc_i, sep_i + 1>> ELSE <<enc_i + 1, 1>>

\* The locals of cargar_todos_csv at entry.  lecturas is the reads made of the
\* file system so far, in order: <<file, encoding, separator>> per call of
\* pd.read_csv.
CsvLocals ==
    [path |-> NULL, enc_i |-> 1, sep_i |-> 1, archivo |-> <<>>,
     lecturas |-> <<>>, ret |-> NULL, exc |-> "", stdout |-> <<>>]

\* The locals of cargar_df_list_desde_directorio_csv at entry.
DirLocals ==
    [csv_paths |-> <<>>, imprimir_info |-> TRUE,
     devolver_detalle |-> FALSE, idx |-> 0,
     df_list |-> <<>>, paths |-> <<>>, encs |-> <<>>, seps |-> <<>>,
     dir_ret |-> NULL]

\* The state record: both functions' locals.
CsvState(pc, caller) ==
    [pc |-> pc, caller |-> caller,
     path |-> CsvLocals.path, enc_i |-> CsvLocals.enc_i,
     sep_i |-> CsvLocals.sep_i, archivo |-> CsvLocals.archivo,
     lecturas |-> CsvLocals.lecturas, ret |-> CsvLocals.ret,
     exc |-> CsvLocals.exc, stdout |-> CsvLocals.stdout,
     csv_paths |-> DirLocals.csv_paths,
     imprimir_info |-> DirLocals.imprimir_info,
     devolver_detalle |-> DirLocals.devolver_detalle, idx |-> DirLocals.idx,
     df_list |-> DirLocals.df_list, paths |-> DirLocals.paths,
     encs |-> DirLocals.encs, seps |-> DirLocals.seps,
     dir_ret |-> DirLocals.dir_ret]

\* The notebook calls cargar_todos_csv(path).
CsvInit ==
    \E f \in Files :
        csv = [CsvState("try", "notebook") EXCEPT !.path = PathOf(1, f)]

\* One pass of the loop body: the read, the test of its result, the except.
TryRead ==
    /\ csv.pc = "try"
    /\ LET enc == Encodings[csv.enc_i]
           sep == Separators[csv.sep_i]
           r   == ReadCsv(csv.path, enc, sep)
           nxt == SiguientePar(csv.enc_i, csv.sep_i)
           leido == Append(csv.lecturas, <<csv.path.name, enc, sep>>)
           sigue(err) ==
               [csv EXCEPT !.lecturas = leido,
                           !.archivo = Append(@, <<enc, sep, err>>),
                           !.enc_i = nxt[1], !.sep_i = nxt[2],
                           !.pc = IF nxt[1] > Len(Encodings) \/ nxt[2] > Len(Separators)
                                  THEN "report" ELSE "try"]
       IN  IF ~r.raised
           THEN IF AlMenosDosColumnas(r.df)
                THEN csv' = [csv EXCEPT !.lecturas = leido,
                                        !.stdout = Append(@, <<"OK", csv.path.name, enc, sep>>),
                                        !.ret = <<r.df, enc, sep>>,
                                        !.pc = "returned"]
                ELSE csv' = sigue("solo 1 columna")
           ELSE IF ExceptException(r.exc)
                THEN csv' = sigue(r.exc)
                ELSE csv' = [csv EXCEPT !.lecturas = leido,
                                        !.exc = r.exc, !.pc = "raised"]
    /\ UNCHANGED <<norm, fecha, bool, texto>>

\* After the loops: show the first attempts and raise ValueError.
ReportAndRaise ==
    /\ csv.pc = "report"
    /\ csv' = [csv EXCEPT
                 !.stdout = @ \o <<<<"ERROR", csv.path.name>>>>
                              \o SubSeq(csv.archivo, 1,
                                        IF Len(csv.archivo) < 10
                                        THEN Len(csv.archivo) ELSE 10),
                 !.exc = "ValueError",
                 !.pc = "raised"]
    /\ UNCHANGED <<norm, fecha, bool, texto>>

InitCsv ==
    /\ CsvInit
    /\ norm = Idle /\ fecha = Idle /\ bool = Idle /\ texto = Idle

NextCsv == TryRead \/ ReportAndRaise

SpecCsv == InitCsv /\ [][NextCsv]_vars

\* The notebook calls cargar_df_list_desde_directorio_csv(dir_path); glob
\* has found csv_paths, in glob order.
DirInit ==
    \E fs \in SeqsUpTo(SampleFiles, MaxFiles), info \in BOOLEAN,
       detalle \in BOOLEAN :
        csv = [CsvState("glob", "directorio") EXCEPT
                 !.csv_paths = [i \in 1..Len(fs) |-> PathOf(i, fs[i])],
                 !.imprimir_info = info,
                 !.devolver_detalle = detalle]

\* The call cargar_todos_csv(path): its locals at entry.
LlamarCargar(c, path) ==
    [c EXCEPT !.path = path, !.enc_i = CsvLocals.enc_i,
              !.sep_i = CsvLocals.sep_i, !.archivo = CsvLocals.archivo,
              !.ret = CsvLocals.ret, !.pc = "try"]

\* A plausible slip: the path is not recorded.
AnotarSinPath(c) ==
    [c EXCEPT !.df_list = Append(@, c.ret[1]),
              !.encs = Append(@, c.ret[2]),
              !.seps = Append(@, c.ret[3])]

\* df, enc, sep = cargar_todos_csv(path) and the four appends.
Anotar(c) ==
    [c EXCEPT !.df_list = Append(@, c.ret[1]),
              !.paths = Append(@, c.path),
              !.encs = Append(@, c.ret[2]),
              !.seps = Append(@, c.ret[3])]

\* if imprimir_info: the number of paths found, then one line per path.
ImprimirInfo(c) ==
    IF c.imprimir_info
    THEN [c EXCEPT !.stdout =
            @ \o <<<<"INFO Encontrados", Len(c.csv_paths)>>>>
              \o [i \in 1..Len(c.csv_paths) |-> <<"-", c.csv_paths[i].name>>]]
    ELSE c

\* From the glob to the first call: the summary, and with no path
\* FileNotFoundError.
Glob ==
    /\ csv.pc = "glob"
    /\ LET c == ImprimirInfo(csv)
       IN  IF c.csv_paths = <<>>
           THEN csv' = [c EXCEPT !.exc = "FileNotFoundError", !.pc = "raised"]
           ELSE csv' = LlamarCargar([c EXCEPT !.idx = 1], c.csv_paths[1])
    /\ UNCHANGED <<norm, fecha, bool, texto>>

\* cargar_todos_csv has returned into the loop: the appends, then the next
\* path or the return.
LoopAppend ==
    /\ csv.pc = "returned"
    /\ csv.caller = "directorio"
    /\ LET c == Anotar(csv)
       IN  IF c.idx < Len(c.csv_paths)
           THEN csv' = LlamarCargar([c EXCEPT !.idx = @ + 1],
                                    c.csv_paths[c.idx + 1])
           ELSE csv' = [c EXCEPT
                          !.dir_ret = IF c.devolver_detalle
                                      THEN <<c.df_list, c.paths, c.encs, c.seps>>
                                      ELSE c.df_list,
                          !.pc = "dir_returned"]
    /\ UNCHANGED <<norm, fecha, bool, texto>>

InitDir ==
    /\ DirInit
    /\ norm = Idle /\ fecha = Idle /\ bool = Idle /\ texto = Idle

NextDir == Glob \/ TryRead \/ ReportAndRaise \/ LoopAppend

SpecDir == InitDir /\ [][NextDir]_vars

(***************************************************************************)
(* Claims about the CSV loaders                                            *)
(***************************************************************************)

\* The order the claim states, written out.
ClaimedEncodings == <<"utf-8-sig", "utf-8", "latin-1", "utf-16">>
ClaimedSeparators == <<",", ";", "|", "\t">>
ClaimedPair(k) ==
    <<ClaimedEncodings[((k - 1) \div 4) + 1], ClaimedSeparators[((k - 1) % 4) + 1]>>

\* The read of path with pair k gives more than one column.
Succeeds(path, k) ==
    /\ ClaimedPair(k)[1] \in path.decodable
    /\ path.bysep[ClaimedPair(k)[2]] = "many"

Unreadable(path) == \A k \in 1..16 : ~Succeeds(path, k)

\* C1: the k-th read uses the k-th pair of the fixed order; what is returned
\* is the first pair of that order whose read gives more than one column,
\* together with the table of that very read, and that read is the last.
C1_FirstPairInOrder ==
    csv.pc # "glob" =>
    /\ \A k \in 1..Len(csv.lecturas) :
          /\ k <= 16
          /\ csv.lecturas[k] = <<csv.path.name, ClaimedPair(k)[1], ClaimedPair(k)[2]>>
    /\ csv.pc = "returned" =>
          LET n == Len(csv.lecturas)
          IN  /\ n >= 1
              /\ Succeeds(csv.path, n)
              /\ \A k \in 1..(n - 1) : ~Succeeds(csv.path, k)
              /\ csv.ret[2] = ClaimedPair(n)[1]
              /\ csv.ret[3] = ClaimedPair(n)[2]
              /\ csv.ret[1].source = csv.path.name
              /\ csv.ret[1].encoding = csv.ret[2]
              /\ csv.ret[1].sep = csv.ret[3]
              /\ csv.ret[1].ncols > 1

C1_Witness ==
    /\ csv.pc = "returned"
    /\ csv.ret[2] = "latin-1"
    /\ csv.ret[3] = ";"
    /\ Len(csv.lecturas) = 10
    /\ Succeeds(csv.path, 16)
    /\ \E k \in 1..9 : csv.lecturas[k][2] \in csv.path.decodable

\* C2: ValueError is raised exactly when all 16 pairs fail; no exception of
\* a read reaches the caller; at most 16 reads are made.
C2_ValueErrorIffAllFail ==
    /\ Len(csv.lecturas) <= 16
    /\ csv.pc = "try" => Len(csv.lecturas) < 16
    /\ csv.exc \in {"", "ValueError"}
    /\ csv.pc = "raised" =>
          /\ csv.exc = "ValueError"
          /\ Unreadable(csv.path)
          /\ Len(csv.lecturas) = 16
    /\ csv.pc = "returned" => ~Unreadable(csv.path)
    /\ csv.pc \in {"try", "report", "returned", "raised"}
    /\ (csv.pc = "report" \/ csv.pc = "raised") <=>
          (Unreadable(csv.path) /\ Len(csv.lecturas) = 16)

C2_Witness ==
    /\ csv.pc = "raised"
    /\ csv.exc = "ValueError"
    /\ \E k \in 1..16 : csv.archivo[k][3] = "ParserError"
    /\ \E k \in 1..16 : csv.archivo[k][3] = "UnicodeDecodeError"
    /\ \E k \in 1..16 : csv.archivo[k][3] = "solo 1 columna"

\* C7: with no matching path FileNotFoundError is raised before any read;
\* otherwise the paths are loaded one by one in glob order, a return gives
\* four lists as long as the matched paths with entry i belonging to path i,
\* and one unreadable file makes the call raise ValueError with nothing
\* returned.
C7_DirectoryLoad ==
    /\ (csv.csv_paths = <<>> /\ csv.pc # "glob") =>
          (csv.pc = "raised" /\ csv.exc = "FileNotFoundError" /\ csv.lecturas = <<>>)
    /\ csv.exc = "FileNotFoundError" => (csv.csv_paths = <<>> /\ csv.lecturas = <<>>)
    /\ \A k \in 1..Len(csv.lecturas) : \A l \in k..Len(csv.lecturas) :
          csv.lecturas[k][1] <= csv.lecturas[l][1]
    /\ \A k \in 1..Len(csv.lecturas) :
          /\ csv.lecturas[k][1] <= csv.idx
          /\ \A i \in 1..(csv.lecturas[k][1] - 1) : ~Unreadable(csv.csv_paths[i])
    /\ csv.paths = SubSeq(csv.csv_paths, 1, Len(csv.paths))
    /\ csv.pc = "dir_returned" =>
          /\ Len(csv.df_list) = Len(csv.csv_paths)
          /\ Len(csv.paths) = Len(csv.csv_paths)
          /\ Len(csv.encs) = Len(csv.csv_paths)
          /\ Len(csv.seps) = Len(csv.csv_paths)
          /\ \A i \in 1..Len(csv.csv_paths) :
                /\ csv.paths[i] = csv.csv_paths[i]
                /\ csv.df_list[i].source = csv.csv_paths[i].name
                /\ csv.df_list[i].encoding = csv.encs[i]
                /\ csv.df_list[i].sep = csv.seps[i]
                /\ csv.df_list[i].ncols > 1
          /\ csv.dir_ret = IF csv.devolver_detalle
                           THEN <<csv.df_list, csv.paths, csv.encs, csv.seps>>
                           ELSE csv.df_list
    /\ (\E i \in 1..Len(csv.csv_paths) : Unreadable(csv.csv_paths[i])) =>
          (csv.pc # "dir_returned" /\ csv.dir_ret = NULL)
    /\ csv.pc = "raised" =>
          /\ csv.dir_ret = NULL
          /\ csv.exc = "ValueError" =>
                /\ Unreadable(csv.csv_paths[csv.idx])
                /\ \A i \in 1..(csv.idx - 1) : ~Unreadable(csv.csv_paths[i])

C7_Witness ==
    /\ csv.pc = "dir_returned"
    /\ Len(csv.csv_paths) = 2
    /\ csv.devolver_detalle
    /\ csv.encs = <<"latin-1", "utf-8-sig">>
    /\ csv.seps = <<";", ",">>

(***************************************************************************)
(* Cells of a table.  Every cell is a record of one shape: its kind t, its *)
(* text v (a str cell) and its numbers n (a Timestamp's year, month, day;  *)
(* a bool's 0 or 1).                                                       *)
(***************************************************************************)

Str(s) == [t |-> "str", v |-> s, n |-> <<>>]
NaN == [t |-> "nan", v |-> <<>>, n |-> <<>>]
NaT == [t |-> "nat", v |-> <<>>, n |-> <<>>]
NA == [t |-> "na", v |-> <<>>, n |-> <<>>]
Timestamp(y, m, d) == [t |-> "ts", v |-> <<>>, n |-> <<y, m, d>>]
Bool(b) == [t |-> "bool", v |-> <<>>, n |-> <<IF b THEN 1 ELSE 0>>]

\* isna() / isnull()
IsNa(cell) == cell.t \in {"nan", "nat", "na"}

(***************************************************************************)
(* convertir_columnas_datetime                                             *)
(***************************************************************************)

NRowsFecha == 2

Digits == <<"0", "1", "2", "3", "4", "5", "6", "7", "8", "9">>

IsDigit(c) == \E i \in 1..Len(Digits) : Digits[i] = c

DigitVal(c) == (CHOOSE i \in 1..Len(Digits) : Digits[i] = c) - 1

RECURSIVE NumVal(_)
NumVal(s) ==
    IF s = <<>> THEN 0
    ELSE NumVal(SubSeq(s, 1, Len(s) - 1)) * 10 + DigitVal(s[Len(s)])

AllDigits(s) == \A i \in 1..Len(s) : IsDigit(s[i])

\* The pieces of s between the occurrences of the character c.
RECURSIVE Split(_, _)
Split(s, c) ==
    IF \A i \in 1..Len(s) : s[i] # c THEN <<s>>
    ELSE LET i == CHOOSE j \in 1..Len(s) :
                      s[j] = c /\ \A k \in 1..(j - 1) : s[k] # c
         IN  <<SubSeq(s, 1, i - 1)>> \o Split(SubSeq(s, i + 1, Len(s)), c)

\* The formats of the calls: the default "%d/%m/%Y", and "%Y-%m-%d".
Formatos ==
    { [campos |-> <<"d", "m", "Y">>, sep |-> "/"],
      [campos |-> <<"Y", "m", "d">>, sep |-> "-"] }

FormatoPorDefecto == [campos |-> <<"d", "m", "Y">>, sep |-> "/"]

\* What the directives %d, %m and %Y accept.
CampoOk(campo, txt) ==
    /\ AllDigits(txt)
    /\ CASE campo = "d" -> Len(txt) \in {1, 2} /\ NumVal(txt) \in 1..31
         [] campo = "m" -> Len(txt) \in {1, 2} /\ NumVal(txt) \in 1..12
         [] campo = "Y" -> Len(txt) = 4 /\ NumVal(txt) >= 1

Bisiesto(y) == (y % 4 = 0 /\ y % 100 # 0) \/ y % 400 = 0

DiasDelMes(m, y) ==
    IF m = 2 THEN (IF Bisiesto(y) THEN 29 ELSE 28)
    ELSE IF m \in {4, 6, 9, 11} THEN 30 ELSE 31

\* pd.to_datetime(..., format=formato, errors='coerce') on one cell.  The
\* years of the inputs lie in the range a Timestamp holds.
ToDatetimeCell(cell, formato) ==
    IF cell.t = "ts" THEN cell
    ELSE IF cell.t # "str" THEN NaT
    ELSE LET parts == Split(cell.v, formato.sep)
             pos(campo) == CHOOSE i \in 1..3 : formato.campos[i] = campo
         IN  IF /\ Len(parts) = 3
                /\ \A i \in 1..3 : CampoOk(formato.campos[i], parts[i])
             THEN LET y == NumVal(parts[pos("Y")])
                      m == NumVal(parts[pos("m")])
                      d == NumVal(parts[pos("d")])
                  IN  IF d <= DiasDelMes(m, y) THEN Timestamp(y, m, d) ELSE NaT
             ELSE NaT

\* pd.to_datetime(df[col], format=formato, errors='coerce')
ToDatetime(column, formato) ==
    [k \in 1..Len(column) |-> ToDatetimeCell(column[k], formato)]

\* df[col].isna().sum()
CountNa(column) == Cardinality({k \in 1..Len(column) : IsNa(column[k])})

\* df[col].notna().sum()
CountNotNa(column) == Cardinality({k \in 1..Len(column) : ~IsNa(column[k])})

\* round((n / total) * 100, 2), in hundredths of a percent: the values the
\* call can give.  The code rounds the float (n / total) * 100, not the exact
\* quotient.  Off a tie the float lies on the side of the quotient and the
\* nearest hundredth is the result.  Where the exact quotient is a tie
\* (n = 23, total = 160: 14.375) the float lies a rounding error above or
\* below it (14.374999999999998, printed 14.37; 49 / 160 gives
\* 30.625000000000004, printed 30.63) or on it, and the result also depends
\* on the rounding of the number type (0.025 is printed 0.03 by float's round
\* and 0.02 by numpy's): either neighbour is possible.
Porcentaje(n, total) ==
    LET q == (n * 10000) \div total
        r == (n * 10000) % total
    IN  IF 2 * r < total THEN {q}
        ELSE IF 2 * r > total THEN {q + 1}
        ELSE {q, q + 1}

Fecha1 == <<"3", "1", "/", "1", "2", "/", "2", "0", "2", "0">>
Fecha2 == <<"2", "9", "/", "0", "2", "/", "2", "0", "2", "1">>
Fecha3 == <<"2", "0", "2", "0", "-", "1", "2", "-", "3", "1">>
Fecha4 == <<"1", "/", "2", "/", "2", "0", "2", "4">>

SampleFechaCells == {Str(Fecha1), Str(Fecha2), Str(Fecha3), NaN}

\* Tables with the columns fecha and alta, of one row at least.
FechaTables ==
    UNION { [{"fecha", "alta"} -> [1..n -> SampleFechaCells]] : n \in 1..NRowsFecha }
    \cup { [c \in {"fecha", "alta"} |-> <<Str(Fecha4), Str(Fecha1)>>] }

\* The lists of columns of the calls; the table has no column otra.
FechaColumnas ==
    { <<>>, <<"fecha">>, <<"otra", "fecha">>, <<"alta", "otra">>,
      <<"fecha", "otra", "alta">>, <<"fecha", "fecha">> }

\* A plausible slip: the handler ends the loop.
ExceptFechaBreak(c, col, e) ==
    [c EXCEPT !.stdout = Append(@, [msg |-> "Error al convertir la columna",
                                    col |-> col, n |-> 0, pct |-> 0]),
              !.i = Len(c.columnas) + 1]

\* except Exception as e: the message, and on to the next column.
ExceptFecha(c, col, e) ==
    [c EXCEPT !.stdout = Append(@, [msg |-> "Error al convertir la columna",
                                    col |-> col, n |-> 0, pct |-> 0]),
              !.i = @ + 1]

\* The try block for a column of the table.
TryFecha(c, col, porcentaje_convertidos, porcentaje_errores) ==
    LET nueva       == ToDatetime(c.df[col], c.formato)
        errores     == CountNa(nueva)
        convertidos == CountNotNa(nueva)
    IN  [c EXCEPT !.df = [@ EXCEPT ![col] = nueva],
                  !.stdout = @ \o
                     << [msg |-> "valores convertidos", col |-> col,
                         n |-> convertidos, pct |-> porcentaje_convertidos],
                        [msg |-> "valores no convertidos", col |-> col,
                         n |-> errores, pct |-> porcentaje_errores] >>,
                  !.i = @ + 1]

\* The notebook calls convertir_columnas_datetime(df, columnas, formato).
\* df_antes is the table as it was at the call.
FechaInit ==
    \E df \in FechaTables, columnas \in FechaColumnas, formato \in Formatos :
        fecha = [pc |-> "loop", df |-> df, df_antes |-> df,
                 columnas |-> columnas, formato |-> formato, i |-> 1,
                 stdout |-> <<>>, exc |-> ""]

\* One pass of the loop: df[col] raises KeyError for a column the table has
\* not, before anything is assigned.
ConvertirColumna ==
    /\ fecha.pc = "loop"
    /\ fecha.i <= Len(fecha.columnas)
    /\ LET col == fecha.columnas[fecha.i]
       IN  IF col \in DOMAIN fecha.df
           THEN LET nueva == ToDatetime(fecha.df[col], fecha.formato)
                    total == Len(nueva)
                IN  \E pc \in Porcentaje(CountNotNa(nueva), total),
                       pe \in Porcentaje(CountNa(nueva), total) :
                        fecha' = TryFecha(fecha, col, pc, pe)
           ELSE fecha' = ExceptFecha(fecha, col, "KeyError")
    /\ UNCHANGED <<norm, csv, bool, texto>>

\* The loop is over: the function returns (None).
FechaReturn ==
    /\ fecha.pc = "loop"
    /\ fecha.i > Len(fecha.columnas)
    /\ fecha' = [fecha EXCEPT !.pc = "returned"]
    /\ UNCHANGED <<norm, csv, bool, texto>>

InitFecha ==
    /\ FechaInit
    /\ norm = Idle /\ csv = Idle /\ bool = Idle /\ texto = Idle

NextFecha == ConvertirColumna \/ FechaReturn

SpecFecha == InitFecha /\ [][NextFecha]_vars

(***************************************************************************)
(* Claims about convertir_columnas_datetime                                *)
(***************************************************************************)

\* The listed columns at positions before i.
ListedBefore(i) == {fecha.columnas[j] : j \in 1..(i - 1)}

\* C6: the listed columns are handled in order; a listed column the table
\* has not is logged and skipped, nothing propagates, the columns listed
\* after it are converted all the same and those converted before stay
\* converted; the missing column is not created, unlisted columns keep their
\* cells, and in a converted column a value that does not parse is null.
C6_DatetimeSkipsFailures ==
    /\ fecha.exc = ""
    /\ fecha.pc \in {"loop", "returned"}
    /\ fecha.pc = "returned" => fecha.i = Len(fecha.columnas) + 1
    /\ DOMAIN fecha.df = DOMAIN fecha.df_antes
    /\ \A c \in DOMAIN fecha.df :
          /\ Len(fecha.df[c]) = Len(fecha.df_antes[c])
          /\ \A k \in 1..Len(fecha.df[c]) :
                LET antes == fecha.df_antes[c][k]
                    ahora == fecha.df[c][k]
                IN  IF c \in ListedBefore(fecha.i)
                    THEN /\ ahora.t \in {"ts", "nat"}
                         /\ ahora.t = "nat" <=>
                               ToDatetimeCell(antes, fecha.formato).t = "nat"
                         /\ (antes = Str(Fecha2) \/ antes = NaN) => ahora = NaT
                         /\ (antes = Str(Fecha1) /\ fecha.formato = FormatoPorDefecto)
                               => ahora = Timestamp(2020, 12, 31)
                         /\ (antes = Str(Fecha3) /\ fecha.formato = FormatoPorDefecto)
                               => ahora = NaT
                         /\ (antes = Str(Fecha3) /\ fecha.formato # FormatoPorDefecto)
                               => ahora = Timestamp(2020, 12, 31)
                    ELSE ahora = antes
    /\ \A j \in 1..(fecha.i - 1) :
          fecha.columnas[j] \notin DOMAIN fecha.df_antes =>
              \E l \in 1..Len(fecha.stdout) :
                  /\ fecha.stdout[l].msg = "Error al convertir la columna"
                  /\ fecha.stdout[l].col = fecha.columnas[j]

C6_Witness ==
    /\ fecha.pc = "returned"
    /\ fecha.columnas = <<"fecha", "otra", "alta">>
    /\ fecha.formato = FormatoPorDefecto
    /\ fecha.df_antes["fecha"] = <<Str(Fecha1), Str(Fecha2)>>
    /\ fecha.df["fecha"] = <<Timestamp(2020, 12, 31), NaT>>
    /\ fecha.df_antes["alta"] = <<Str(Fecha3), Str(Fecha1)>>
    /\ fecha.df["alta"] = <<NaT, Timestamp(2020, 12, 31)>>
    /\ Len(fecha.stdout) = 5

(***************************************************************************)
(* convertir_columna_bool                                                  *)
(***************************************************************************)

MaxCellLen == 3
NRowsBool == 2

BoolAlphabet == {" ", "S", "i", "Í", "n", "O"}

SampleBoolCells ==
    { Str(<<"s", "i">>), Str(<<" ", "S", "í", " ">>), Str(<<"N", "O", "\t">>),
      Str(<<"n", "o">>), Str(<<"s", " ", "i">>), Str(<<"T", "r", "u", "e">>),
      NaN, Bool(TRUE) }

\* The column activo of the tables: one cell of any text, or sample cells.
BoolColumns ==
    {<<Str(t)>> : t \in TextsUpTo(BoolAlphabet, MaxCellLen)}
    \cup UNION {[1..n -> SampleBoolCells] : n \in 1..NRowsBool}

\* astype(str) on one cell
AsStr(cell) ==
    CASE cell.t = "str"  -> cell.v
      [] cell.t = "nan"  -> <<"n", "a", "n">>
      [] cell.t = "nat"  -> <<"N", "a", "T">>
      [] cell.t = "na"   -> <<"<", "N", "A", ">">>
      [] cell.t = "bool" -> IF cell.n[1] = 1 THEN <<"T", "r", "u", "e">>
                                             ELSE <<"F", "a", "l", "s", "e">>
      [] cell.t = "ts"   -> <<"t", "s">>

\* A plausible slip: the accented form is not in the dictionary.
MapBoolSinTilde(txt) ==
    CASE txt = <<"s", "i">> -> Bool(TRUE)
      [] txt = <<"n", "o">> -> Bool(FALSE)
      [] OTHER              -> NaN

\* .map({'si': True, 'sí': True, 'no': False})
MapBool(txt) ==
    CASE txt = <<"s", "i">> -> Bool(TRUE)
      [] txt = <<"s", "í">> -> Bool(TRUE)
      [] txt = <<"n", "o">> -> Bool(FALSE)
      [] OTHER              -> NaN

\* .astype('boolean') on one cell
AsBoolean(cell) == IF IsNa(cell) THEN NA ELSE cell

\* The three assignments to df[columna], for one cell.
ConvertirCeldaBool(cell) == AsBoolean(MapBool(Lower(Strip(AsStr(cell)))))

\* The notebook calls convertir_columna_bool(df, columna).  df_antes is the
\* table as it was at the call.
BoolInit ==
    \E col \in BoolColumns, columna \in {"activo", "falta"} :
        LET df == [c \in {"activo", "otra"} |->
                      IF c = "activo" THEN col
                      ELSE [k \in 1..Len(col) |-> Str(<<"S", "i">>)]]
        IN  bool = [pc |-> "start", df |-> df, df_antes |-> df,
                    columna |-> columna, stdout |-> <<>>, exc |-> ""]

\* The whole call.
ConvertirColumnaBool ==
    /\ bool.pc = "start"
    /\ IF bool.columna \notin DOMAIN bool.df
       THEN bool' = [bool EXCEPT
                       !.stdout = Append(@, <<"no existe en el DataFrame", bool.columna>>),
                       !.pc = "returned"]
       ELSE bool' = [bool EXCEPT
                       !.df = [@ EXCEPT ![bool.columna] =
                                  [k \in 1..Len(@) |-> ConvertirCeldaBool(@[k])]],
                       !.stdout = Append(@, <<"convertida a booleano", bool.columna>>),
                       !.pc = "returned"]
    /\ UNCHANGED <<norm, csv, fecha, texto>>

InitBool ==
    /\ BoolInit
    /\ norm = Idle /\ csv = Idle /\ fecha = Idle /\ texto = Idle

NextBool == ConvertirColumnaBool

SpecBool == InitBool /\ [][NextBool]_vars

(***************************************************************************)
(* Claims about convertir_columna_bool                                     *)
(***************************************************************************)

\* The text of a str cell, stripped and lower-cased, is one of the words.
CellSays(cell, words) ==
    /\ cell.t = "str"
    /\ \E lo \in 1..(Len(cell.v) + 1), hi \in 0..Len(cell.v) :
          /\ IsStripped(cell.v, lo, hi)
          /\ [i \in 1..(hi - lo + 1) |-> LowerChar(cell.v[lo + i - 1])] \in words

\* C8: in an existing column each cell becomes True for 'si' or 'sí', False
\* for 'no' (after strip and lower) and null otherwise, nulls included, the
\* other columns untouched; for a missing column the call returns and the
\* table is as before.
C8_BoolColumn ==
    /\ bool.exc = ""
    /\ bool.pc = "returned" =>
          /\ DOMAIN bool.df = DOMAIN bool.df_antes
          /\ \A c \in DOMAIN bool.df :
                /\ Len(bool.df[c]) = Len(bool.df_antes[c])
                /\ \A k \in 1..Len(bool.df[c]) :
                      LET antes == bool.df_antes[c][k]
                          ahora == bool.df[c][k]
                      IN  IF c = bool.columna
                          THEN ahora =
                                 IF CellSays(antes, {<<"s", "i">>, <<"s", "í">>})
                                 THEN Bool(TRUE)
                                 ELSE IF CellSays(antes, {<<"n", "o">>})
                                 THEN Bool(FALSE)
                                 ELSE NA
                          ELSE ahora = antes

C8_Witness ==
    /\ bool.pc = "returned"
    /\ bool.columna = "activo"
    /\ bool.df_antes["activo"] = <<Str(<<" ", "S", "í", " ">>), NaN>>
    /\ bool.df["activo"] = <<Bool(TRUE), NA>>
    /\ bool.df["otra"] = bool.df_antes["otra"]

(***************************************************************************)
(* limpiar_columna_texto                                                   *)
(***************************************************************************)

NRowsTexto == 2

\* Python values a call returns.
None == [t |-> "none", v |-> <<>>, n |-> <<>>]
PyInt(k) == [t |-> "int", v |-> <<>>, n |-> <<k>>]

AsciiLower == {LowerChars[i] : i \in 1..26}

Ascii ==
    AsciiLower \cup {UpperChars[i] : i \in 1..26} \cup Range(Digits)
    \cup {" ", "\t", "\n", ".", ",", "-", "_", "%", "/", "<", ">"}

\* unicodedata.normalize('NFKD', s) on one character.  A combining mark is
\* written by its code point.
NFKDChar(c) ==
    CASE c = "á" -> <<"a", "U+0301">>
      [] c = "é" -> <<"e", "U+0301">>
      [] c = "í" -> <<"i", "U+0301">>
      [] c = "ó" -> <<"o", "U+0301">>
      [] c = "ú" -> <<"u", "U+0301">>
      [] c = "ñ" -> <<"n", "U+0303">>
      [] c = "Á" -> <<"A", "U+0301">>
      [] c = "É" -> <<"E", "U+0301">>
      [] c = "Í" -> <<"I", "U+0301">>
      [] c = "Ó" -> <<"O", "U+0301">>
      [] c = "Ú" -> <<"U", "U+0301">>
      [] c = "Ñ" -> <<"N", "U+0303">>
      [] c = "¨" -> <<" ", "U+0308">>
      [] c = "ª" -> <<"a">>
      [] OTHER   -> <<c>>

RECURSIVE NFKD(_)
NFKD(s) == IF s = <<>> THEN <<>> ELSE NFKDChar(Head(s)) \o NFKD(Tail(s))

\* .str.encode('ascii', errors='ignore').str.decode('utf-8')
AsciiIgnore(s) == SelectSeq(s, LAMBDA c : c \in Ascii)

\* .str.replace(r'\s+', ' ', regex=True)
RECURSIVE CollapseSpaces(_)
CollapseSpaces(s) ==
    IF s = <<>> THEN <<>>
    ELSE IF Head(s) \in Whitespace
    THEN <<" ">> \o CollapseSpaces(LStrip(s))
    ELSE <<Head(s)>> \o CollapseSpaces(Tail(s))

IsCased(c) == LowerChar(c) # c \/ UpperChar(c) # c

\* .str.title(): a cased character after an uncased one (or first) is made
\* upper case, a cased character after a cased one lower case.
Title(s) ==
    [i \in 1..Len(s) |->
        IF i > 1 /\ IsCased(s[i - 1]) THEN LowerChar(s[i]) ELSE UpperChar(s[i])]

\* .str.capitalize()
Capitalize(s) ==
    [i \in 1..Len(s) |-> IF i = 1 THEN UpperChar(s[i]) ELSE LowerChar(s[i])]

\* The chain of assignments to valor_modificado, for one cell.  The result
\* of the removal of the points goes to another name and is not used.
LimpiarCelda(cell) ==
    LET v0 == AsStr(cell)
        v1 == Strip(v0)
        v2 == CollapseSpaces(v1)
        servalor_modificadoie == Replace(v2, ".", <<>>)
        v4 == AsciiIgnore(NFKD(v2))
        v5 == Title(v4)
    IN  Capitalize(v5)

SampleTextoCells ==
    { Str(<<" ", "a", " ", "\t", "b", ".", " ">>),
      Str(<<"s", ".", "A", ".">>),
      Str(<<"L", "i", "d", "l">>),
      Str(<<"P", "e", "ñ", "a", "¨">>),
      Str(<<"Z", "A", "R", "A">>),
      NaN }

\* col_no_cambiar: None (the default) or a list of column names.
ColNoCambiar ==
    { [none |-> TRUE, lista |-> <<>>],
      [none |-> FALSE, lista |-> <<>>],
      [none |-> FALSE, lista |-> <<"cliente">>],
      [none |-> FALSE, lista |-> <<"otra">>],
      [none |-> FALSE, lista |-> <<"otra", "cliente">>] }

\* The notebook calls limpiar_columna_texto(df, nombre_col, col_no_cambiar)
\* with a column of the table.  df_antes is the table as it was at the call.
TextoInit ==
    \E n \in 1..NRowsTexto :
      \E col \in [1..n -> SampleTextoCells], nombre_col \in {"cliente", "otra"},
         col_no_cambiar \in ColNoCambiar :
        LET df == [c \in {"cliente", "otra"} |->
                      IF c = "cliente" THEN col
                      ELSE [k \in 1..n |-> Str(<<"x", ".", " ">>)]]
        IN  texto = [pc |-> "start", df |-> df, df_antes |-> df,
                     nombre_col |-> nombre_col, col_no_cambiar |-> col_no_cambiar,
                     ret |-> None, exc |-> "", stdout |-> <<>>]

\* The whole call.
LimpiarColumnaTexto ==
    /\ texto.pc = "start"
    /\ IF texto.col_no_cambiar.none
       THEN \* nombre_col in None
            texto' = [texto EXCEPT !.exc = "TypeError", !.pc = "done"]
       ELSE IF texto.nombre_col \in Range(texto.col_no_cambiar.lista)
       THEN LET columna          == texto.df[texto.nombre_col]
                valor_original   == [k \in 1..Len(columna) |-> AsStr(columna[k])]
                valor_modificado == [k \in 1..Len(columna) |-> LimpiarCelda(columna[k])]
                diffs == Cardinality({k \in 1..Len(columna) :
                                         valor_original[k] # valor_modificado[k]})
            IN  texto' = [texto EXCEPT
                            !.df = [@ EXCEPT ![texto.nombre_col] =
                                       [k \in 1..Len(columna) |-> Str(valor_modificado[k])]],
                            !.stdout = Append(@, [msg |-> "valores actualizados en la columna",
                                                  col |-> texto.nombre_col, n |-> diffs]),
                            !.ret = None,
                            !.pc = "done"]
       ELSE \* valor_original is read and was never assigned
            texto' = [texto EXCEPT !.exc = "UnboundLocalError", !.pc = "done"]
    /\ UNCHANGED <<norm, csv, fecha, bool>>

InitTexto ==
    /\ TextoInit
    /\ norm = Idle /\ csv = Idle /\ fecha = Idle /\ bool = Idle

NextTexto == LimpiarColumnaTexto

SpecTexto == InitTexto /\ [][NextTexto]_vars

(***************************************************************************)
(* Claims about limpiar_columna_texto                                      *)
(***************************************************************************)

\* The cells of the named column whose text is not what it was.
ChangedCells ==
    {k \in 1..Len(texto.df[texto.nombre_col]) :
        AsStr(texto.df[texto.nombre_col][k]) # AsStr(texto.df_antes[texto.nombre_col][k])}

\* C3: for any column of the table, with col_no_cambiar given or not and
\* the column listed or not, the call raises nothing and returns the number
\* of cells of the column whose text changed.
C3_ReturnsChangeCount ==
    texto.pc = "done" =>
        /\ texto.exc = ""
        /\ texto.ret = PyInt(Cardinality(ChangedCells))

\* C4: a column listed in col_no_cambiar is left as it was; a column that
\* is not listed is cleaned in place.
C4_ListedColumnUntouched ==
    texto.pc = "done" =>
        LET listed == /\ ~texto.col_no_cambiar.none
                      /\ texto.nombre_col \in Range(texto.col_no_cambiar.lista)
            ahora  == texto.df[texto.nombre_col]
            antes  == texto.df_antes[texto.nombre_col]
        IN  /\ listed => ahora = antes
            /\ ~listed =>
                  \A k \in 1..Len(antes) : ahora[k] = Str(LimpiarCelda(antes[k]))

\* The column was cleaned: the call wrote the cleaned texts to it.
WasCleaned ==
    /\ texto.pc = "done"
    /\ texto.exc = ""
    /\ \E l \in 1..Len(texto.stdout) : texto.stdout[l].col = texto.nombre_col

\* C5: in a cleaned column every cell is a text with no whitespace at its
\* ends, no two whitespace characters in a row, no '.', ASCII characters
\* only, and no lower-case letter.
C5_CleanedCells ==
    WasCleaned =>
        \A k \in 1..Len(texto.df[texto.nombre_col]) :
            LET cell == texto.df[texto.nombre_col][k]
            IN  /\ cell.t = "str"
                /\ cell.v # <<>> =>
                      (cell.v[1] \notin Whitespace /\ cell.v[Len(cell.v)] \notin Whitespace)
                /\ \A i \in 1..(Len(cell.v) - 1) :
                      ~(cell.v[i] \in Whitespace /\ cell.v[i + 1] \in Whitespace)
                /\ \A i \in 1..Len(cell.v) :
                      /\ cell.v[i] # "."
                      /\ cell.v[i] \in Ascii
                      /\ cell.v[i] \notin AsciiLower

====
